---- MODULE Spec2Model ----
(***************************************************************************)
(* Model of vbox-shutdown.py: the VBCController command marshaller (caller *)
(* threads, worker threads, idle timer threads) and the tray orchestrator  *)
(* that drives the machines through shutdown / save.                       *)
(*                                                                         *)
(* Granularity: an action is a short run of consecutive statements of one  *)
(* thread, cut wherever the thread may block (a lock, an event, a join)    *)
(* and between a test of shared state and the write that depends on it.    *)
(* A `with self._wq:` block whose body never blocks is one action, guarded *)
(* by the lock being free.  Thread, timer and context objects live in      *)
(* numbered slots; a slot is reused once nothing refers to the object.     *)
(***************************************************************************)
EXTENDS Integers, Sequences, FiniteSets, TLC

\* ------------------------------------------------------------- bounds
NumCallers == 2
MaxThreads == 2
MaxTimers == 2
MaxHold == 2
MaxOps == 3
MaxSeqOps == 5

NumMachines == 2
MaxQueries == 2
MaxFaults == 1
MaxFires == 1
MaxGuardOps == 6
MaxBlockerCalls == 12

Callers == 1..NumCallers
Machines == 1..NumMachines
Workers == 1..MaxThreads
Timers == 1..MaxTimers

\* ------------------------------------------------------------- values
\* A value handed back through _call_result.
None == [tag |-> "None", who |-> 0, ms |-> {}]
Val(c) == [tag |-> "val", who |-> c, ms |-> {}]
True == [tag |-> "True", who |-> 0, ms |-> {}]
Raised == [tag |-> "raised", who |-> 0, ms |-> {}]
List(S) == [tag |-> "list", who |-> 0, ms |-> S]

\* What _call_method / _call_args hold: the operation and its owner.
NoCall == [kind |-> "none", owner |-> 0, arg |-> 0]
OpKinds == {"ok", "raise"}

\* No operation has finished yet.
NoDone == [kind |-> "none", arg |-> 0, raised |-> FALSE, res |-> None]

\* No operation is executing.
NoRun == [ph |-> "none", i |-> 0, res |-> None,
          entry |-> "", sess |-> "none", unlocks |-> 0, cmds |-> 0, saves |-> 0,
          polls |-> 0, flt |-> FALSE, saw |-> "", did |-> "none"]

\* self.ctx: 0 is None (after __init__), CtxDeleted is `del self.ctx`.
CtxDeleted == 0 - 1

VARIABLES
  enabled,      \* self._enabled
  acquire_cnt,  \* self._acquire_cnt
  wq_lock,      \* holder of the lock of self._wq: 0 or a worker
  wq_wait,      \* threads blocked in self._wq.wait(), in arrival order
  ev_result,    \* self._ev_result
  ev_started,   \* self._ev_started
  stop_timer,   \* self._stop_timer: 0 or a timer
  thread,       \* self._thread: 0 or a worker
  call_method,  \* self._call_method with self._call_args
  call_result,  \* self._call_result
  ctx,          \* self.ctx
  cstate,       \* each VBContext object: "none", "live", "deinit"
  pc,           \* each caller thread's position
  opn,          \* the controller method a caller is inside
  cur,          \* the operation a caller passed to call()
  held,         \* how many `with vbcc:` blocks a caller is inside
  ret,          \* what call() last returned to a caller
  execCnt,      \* how often the worker ran the caller's current operation
  wpc,          \* each worker thread's position
  wop,          \* the operation a worker is executing
  wctx,         \* the self.ctx a worker passed to the operation
  tpc,          \* each timer thread's position
  tjoin,        \* the thread a stop() is joining
  wst,          \* how far the operation a worker executes has come
  budget,       \* how many more controller methods the callers may enter
  fires,        \* how often the idle timer may still expire (below 0: always)
  probe,        \* observer of one acquire^k release^k sequence
  mstate,       \* each machine's state as VirtualBox reports it
  faults,       \* how many more management-API calls may fault
  guard,        \* each VBContext object's _recursion_guard.value
  upc,          \* the tray's message loop: the handler statement it is at
  posted,       \* WM_USER+30 messages posted and not yet dispatched
  queries,      \* WM_QUERYENDSESSION messages the OS may still send
  counter,      \* shutdown_blocker.counter
  created,      \* calls of ShutdownBlockReasonCreate so far
  destroyed,    \* calls of ShutdownBlockReasonDestroy so far
  mlist,        \* stop_machines: the machines the for loop has yet to visit
  curm,         \* stop_machine: its machine
  enum,         \* the machines stop_machines got to iterate over
  handled,      \* the machines of enum stop_machine has returned for
  released,     \* what was the case when on_async_stop released the veto
  gactive,      \* per context: the guarded operations inside `with guard:`
  gtry,         \* per context: the last attempt to enter the guard
  lastop        \* the operation a worker finished last (89-91), and its result

ctlVars == <<enabled, acquire_cnt, wq_lock, wq_wait, ev_result, ev_started,
             stop_timer, thread, call_method, call_result, ctx, cstate>>
callerVars == <<pc, opn, cur, held, ret, execCnt>>
workerVars == <<wpc, wop, wctx, wst>>
timerVars == <<tpc, tjoin>>
vbVars == <<mstate, faults, guard>>
uiVars == <<upc, posted, queries, counter, created, destroyed, mlist, curm,
            enum, handled, released>>
unitVars == <<gactive, gtry, lastop>>
vars == <<ctlVars, callerVars, workerVars, timerVars, budget, fires, probe,
          vbVars, uiVars, unitVars>>

\* VBContext.OffMachineStates (175-180)
OffMachineStates == {"PoweredOff", "Saved", "Teleported", "Aborted"}

\* The for loops of shutdown_machine (225) and save_machine (252)
Iterations == 20

\* fires below 0: the idle timer may expire any number of times
Unlimited == 0 - 1

\* Nothing recorded about a release of the veto.
NotReleased == [valid |-> FALSE, enum |-> {}, handled |-> {}, on |-> {}]

\* ------------------------------------------------------------- helpers
\* threading.Thread.is_alive() / threading.Timer.is_alive()
ThreadAlive(w) == w # 0 /\ wpc[w] \notin {"none", "dead"}
TimerAlive(t) == t # 0 /\ tpc[t] \notin {"none", "dead"}

\* A slot whose object nothing refers to any more.
FreeWorkers ==
  {w \in Workers : /\ wpc[w] \in {"none", "dead"}
                   /\ thread # w
                   /\ ctx # w
                   /\ cstate[w] # "live"
                   /\ \A v \in Workers : wctx[v] # w
                   /\ \A t \in Timers : tjoin[t] # w}
FreeTimers == {t \in Timers : tpc[t] \in {"none", "dead"} /\ stop_timer # t}
Least(S) == CHOOSE x \in S : \A y \in S : x <= y

\* Callers that may still create a thread / a timer in their current method.
MayStart == {c \in Callers : pc[c] \in {"start", "start_thread"}}
MayArm == {c \in Callers : opn[c] \in {"call", "release"}}

\* _timer_stop (130-133): cancel the referenced timer when it is alive.  A
\* timer that already left its wait runs its function whatever cancel() did.
TimerStopped(tp) ==
  IF TimerAlive(stop_timer)
  THEN [tp EXCEPT ![stop_timer] = IF @ = "armed" THEN "dead" ELSE @]
  ELSE tp
TimerStopRef == IF TimerAlive(stop_timer) THEN 0 ELSE stop_timer

\* Condition.notify(): wake the longest waiting thread, if any.
Notified(wp) == IF wq_wait = <<>> THEN wp ELSE [wp EXCEPT ![Head(wq_wait)] = "w_lock"]
NotifiedQueue == IF wq_wait = <<>> THEN wq_wait ELSE Tail(wq_wait)

\* Where a caller continues after _start returned.
AfterStart(c) == IF opn[c] = "call" THEN "call_async" ELSE "idle"
OpnAt(c, p) == IF p = "idle" THEN [opn EXCEPT ![c] = "none"] ELSE opn

\* The idle timer is armed: a Timer is waiting out its interval.
TimerArmed == \E t \in Timers : tpc[t] = "armed"

\* The observer: phase "acq" while k acquires were made, "rel" while the
\* releases are made, "done" after the k-th release returned; cnt0/armed0 are
\* the hold count and the timer before the first acquire, cnt1/armed1 after
\* the last release.
ProbeOff == [phase |-> "off", k |-> 0, depth |-> 0,
             cnt0 |-> 0, armed0 |-> FALSE, cnt1 |-> 0, armed1 |-> FALSE]

\* ------------------------------------------------------------- Init
\* The controller after __init__ (51-65); no thread, timer or context exists.
InitCtl ==
  /\ enabled = FALSE
  /\ acquire_cnt = 0
  /\ wq_lock = 0
  /\ wq_wait = <<>>
  /\ ev_result = FALSE
  /\ ev_started = FALSE
  /\ stop_timer = 0
  /\ thread = 0
  /\ call_method = NoCall
  /\ call_result = None
  /\ ctx = 0
  /\ cstate = [w \in Workers |-> "none"]
  /\ pc = [c \in Callers |-> "idle"]
  /\ opn = [c \in Callers |-> "none"]
  /\ cur = [c \in Callers |-> NoCall]
  /\ held = [c \in Callers |-> 0]
  /\ ret = [c \in Callers |-> None]
  /\ execCnt = [c \in Callers |-> 0]
  /\ wpc = [w \in Workers |-> "none"]
  /\ wop = [w \in Workers |-> NoCall]
  /\ wctx = [w \in Workers |-> 0]
  /\ wst = [w \in Workers |-> NoRun]
  /\ guard = [w \in Workers |-> 0]
  /\ tpc = [t \in Timers |-> "none"]
  /\ tjoin = [t \in Timers |-> 0]

\* The tray after VirtualBoxAutoShutdownTray.__init__ (333-359): the message
\* loop is idle, the veto is not engaged.
InitUi ==
  /\ upc = "loop"
  /\ posted = 0
  /\ counter = 0
  /\ created = 0
  /\ destroyed = 0
  /\ mlist = <<>>
  /\ curm = 0
  /\ enum = {}
  /\ handled = {}
  /\ released = NotReleased

\* No attempt to enter a recursion guard was made.
NoTry == [was |-> 0, out |-> "none"]

\* The controller alone: no tray, no shutdown query, the machines play no part.
NoTray ==
  /\ InitUi
  /\ gactive = [c \in Workers |-> 0]
  /\ gtry = [c \in Workers |-> NoTry]
  /\ lastop = NoDone
  /\ queries = 0
  /\ faults = 0
  /\ fires = Unlimited
  /\ mstate = [m \in Machines |-> "PoweredOff"]

Init ==
  /\ InitCtl
  /\ NoTray
  /\ budget = MaxOps
  /\ probe = ProbeOff

\* ------------------------------------------------------------- callers
\* A caller thread may enter call(op), __enter__ or __exit__.
CanBegin(c) ==
  /\ pc[c] = "idle"
  /\ budget > 0
  /\ Cardinality(FreeWorkers) > Cardinality(MayStart)
  /\ Cardinality(FreeTimers) > Cardinality(MayArm)

\* call 145-146: call(context_method, *args) starts with self._timer_stop()
CallBeginOp(c, k, a) ==
  /\ CanBegin(c)
  /\ tpc' = TimerStopped(tpc)
  /\ stop_timer' = TimerStopRef
  /\ pc' = [pc EXCEPT ![c] = "start"]
  /\ opn' = [opn EXCEPT ![c] = "call"]
  /\ cur' = [cur EXCEPT ![c] = [kind |-> k, owner |-> c, arg |-> a]]
  /\ execCnt' = [execCnt EXCEPT ![c] = 0]
  /\ budget' = budget - 1
  /\ UNCHANGED <<fires, vbVars, unitVars,
                 enabled, acquire_cnt, wq_lock, wq_wait, ev_result, ev_started,
                 thread, call_method, call_result, ctx, cstate,
                 held, ret, workerVars, tjoin>>

\* call(op) with an operation that takes no machine
CallBegin(c, k) == CallBeginOp(c, k, 0)

\* __enter__ 67-69: self._timer_stop(); self._acquire_cnt += 1
EnterBegin(c) ==
  /\ CanBegin(c)
  /\ held[c] < MaxHold
  /\ tpc' = TimerStopped(tpc)
  /\ stop_timer' = TimerStopRef
  /\ acquire_cnt' = acquire_cnt + 1
  /\ held' = [held EXCEPT ![c] = @ + 1]
  /\ pc' = [pc EXCEPT ![c] = "start"]
  /\ opn' = [opn EXCEPT ![c] = "acquire"]
  /\ budget' = budget - 1
  /\ UNCHANGED <<fires, vbVars, unitVars,
                 enabled, wq_lock, wq_wait, ev_result, ev_started,
                 thread, call_method, call_result, ctx, cstate,
                 cur, ret, execCnt, workerVars, tjoin>>

\* _timer_start 123-125: do not start the timer while on hold
TimerOnHold == acquire_cnt > 0

\* __exit__ 75 with _timer_start 123: releasing at hold count n goes on to
\* arm the idle timer
ReleaseArms_Always(n) == TRUE
ReleaseArms(n) == n = 0

\* __exit__ 73-76: self._acquire_cnt -= 1; if it is 0, self._timer_start(),
\* which returns at once while on hold (123-125)
ExitBegin(c) ==
  /\ CanBegin(c)
  /\ held[c] > 0
  /\ acquire_cnt' = acquire_cnt - 1
  /\ held' = [held EXCEPT ![c] = @ - 1]
  /\ IF ReleaseArms(acquire_cnt - 1)
     THEN /\ pc' = [pc EXCEPT ![c] = "tstart_arm"]
          /\ opn' = [opn EXCEPT ![c] = "release"]
     ELSE UNCHANGED <<pc, opn>>
  /\ budget' = budget - 1
  /\ UNCHANGED <<fires, vbVars, unitVars,
                 enabled, wq_lock, wq_wait, ev_result, ev_started, stop_timer,
                 thread, call_method, call_result, ctx, cstate,
                 cur, ret, execCnt, workerVars, timerVars>>

\* _start 104: if not self._enabled
StartCheck(c) ==
  /\ pc[c] = "start"
  /\ LET p == IF enabled THEN AfterStart(c) ELSE "start_thread"
     IN /\ pc' = [pc EXCEPT ![c] = p]
        /\ opn' = OpnAt(c, p)
  /\ UNCHANGED <<budget, fires, probe, uiVars, unitVars, vbVars,
                 ctlVars, cur, held, ret, execCnt, workerVars, timerVars>>

\* _start 105-107: self._enabled = True; self._thread = Thread(...); start()
StartThread(c) ==
  /\ pc[c] = "start_thread"
  /\ FreeWorkers # {}
  /\ enabled' = TRUE
  /\ LET w == Least(FreeWorkers)
     IN /\ thread' = w
        /\ wpc' = [wpc EXCEPT ![w] = "w_started"]
        /\ wop' = [wop EXCEPT ![w] = NoCall]
        /\ wctx' = [wctx EXCEPT ![w] = 0]
        /\ wst' = [wst EXCEPT ![w] = NoRun]
        /\ cstate' = [cstate EXCEPT ![w] = "none"]
  /\ pc' = [pc EXCEPT ![c] = "start_wait"]
  /\ UNCHANGED <<budget, fires, probe, uiVars, unitVars, vbVars,
                 acquire_cnt, wq_lock, wq_wait, ev_result, ev_started,
                 stop_timer, call_method, call_result, ctx,
                 opn, cur, held, ret, execCnt, timerVars>>

\* _start 108: self._ev_started.wait()
StartWait(c) ==
  /\ pc[c] = "start_wait"
  /\ ev_started
  /\ pc' = [pc EXCEPT ![c] = AfterStart(c)]
  /\ opn' = OpnAt(c, AfterStart(c))
  /\ UNCHANGED <<budget, fires, probe, uiVars, unitVars, vbVars,
                 ctlVars, cur, held, ret, execCnt, workerVars, timerVars>>

\* _call_async 136-138: the thread is not running: log and return None
CallAsyncNotRunning(c) ==
  /\ pc[c] = "call_async"
  /\ ~ThreadAlive(thread)
  /\ pc' = [pc EXCEPT ![c] = "call_wait"]
  /\ UNCHANGED <<budget, fires, probe, uiVars, unitVars, vbVars,
                 ctlVars, opn, cur, held, ret, execCnt, workerVars, timerVars>>

\* _call_async 136: the thread is running
CallAsyncCheck(c) ==
  /\ pc[c] = "call_async"
  /\ ThreadAlive(thread)
  /\ pc' = [pc EXCEPT ![c] = "call_submit"]
  /\ UNCHANGED <<budget, fires, probe, uiVars, unitVars, vbVars,
                 ctlVars, opn, cur, held, ret, execCnt, workerVars, timerVars>>

\* _call_async 139-143: with self._wq: store the call, clear the event, notify
CallSubmit(c) ==
  /\ pc[c] = "call_submit"
  /\ wq_lock = 0
  /\ call_method' = cur[c]
  /\ ev_result' = FALSE
  /\ wpc' = Notified(wpc)
  /\ wq_wait' = NotifiedQueue
  /\ pc' = [pc EXCEPT ![c] = "call_wait"]
  /\ UNCHANGED <<budget, fires, probe, uiVars, unitVars, vbVars,
                 enabled, acquire_cnt, wq_lock, ev_started, stop_timer, thread,
                 call_result, ctx, cstate,
                 opn, cur, held, ret, execCnt, wop, wctx, wst, timerVars>>

\* call 149-151: self._ev_result.wait(); _timer_start() returns at once while
\* on hold (123-125), and call returns self._call_result
CallWait(c) ==
  /\ pc[c] = "call_wait"
  /\ ev_result
  /\ IF TimerOnHold
     THEN /\ ret' = [ret EXCEPT ![c] = call_result]
          /\ pc' = [pc EXCEPT ![c] = "idle"]
          /\ opn' = [opn EXCEPT ![c] = "none"]
     ELSE /\ pc' = [pc EXCEPT ![c] = "tstart_arm"]
          /\ UNCHANGED <<ret, opn>>
  /\ UNCHANGED <<budget, fires, probe, uiVars, unitVars, vbVars,
                 ctlVars, cur, held, execCnt, workerVars, timerVars>>

\* _timer_start 126-128: self._timer_stop(); self._stop_timer = Timer(15.0,
\* on_timer); start();  then call returns self._call_result (151)
TimerStartArm(c) ==
  /\ pc[c] = "tstart_arm"
  /\ FreeTimers # {}
  /\ LET t == Least(FreeTimers)
     IN /\ stop_timer' = t
        /\ tpc' = [TimerStopped(tpc) EXCEPT ![t] = "armed"]
  /\ ret' = [ret EXCEPT ![c] = IF opn[c] = "call" THEN call_result ELSE @]
  /\ pc' = [pc EXCEPT ![c] = "idle"]
  /\ opn' = [opn EXCEPT ![c] = "none"]
  /\ UNCHANGED <<budget, fires, vbVars, unitVars,
                 enabled, acquire_cnt, wq_lock, wq_wait, ev_result, ev_started,
                 thread, call_method, call_result, ctx, cstate,
                 cur, held, execCnt, workerVars, tjoin>>

\* ------------------------------------------------------------- worker
\* _worker 79: self._ev_started.set()
WorkerStarted(w) ==
  /\ wpc[w] = "w_started"
  /\ ev_started' = TRUE
  /\ wpc' = [wpc EXCEPT ![w] = "w_ctx"]
  /\ UNCHANGED <<budget, fires, probe, uiVars, unitVars, vbVars,
                 enabled, acquire_cnt, wq_lock, wq_wait, ev_result, stop_timer,
                 thread, call_method, call_result, ctx, cstate,
                 callerVars, wop, wctx, wst, timerVars>>

\* _worker 80: self.ctx = VBContext()
WorkerCtx(w) ==
  /\ wpc[w] = "w_ctx"
  /\ ctx' = w
  /\ cstate' = [cstate EXCEPT ![w] = "live"]
  /\ guard' = [guard EXCEPT ![w] = 0]
  /\ wpc' = [wpc EXCEPT ![w] = "w_lock"]
  /\ UNCHANGED <<budget, fires, probe, uiVars, unitVars, mstate, faults,
                 enabled, acquire_cnt, wq_lock, wq_wait, ev_result, ev_started,
                 stop_timer, thread, call_method, call_result,
                 callerVars, wop, wctx, wst, timerVars>>

\* The worker takes the lock of self._wq: entering `with self._wq:` (82) or
\* returning from self._wq.wait() (92).
WorkerMayLock_NoLock(w) == wpc[w] = "w_lock"
WorkerMayLock(w) == wpc[w] = "w_lock" /\ wq_lock = 0

\* _worker 83, 94-96: while self._enabled fails: clear the call and the
\* result, leave `with self._wq:`
WorkerLoopExit(w) ==
  /\ WorkerMayLock(w)
  /\ ~enabled
  /\ call_method' = NoCall
  /\ call_result' = None
  /\ wpc' = [wpc EXCEPT ![w] = "w_deinit"]
  /\ UNCHANGED <<budget, fires, probe, uiVars, unitVars, vbVars,
                 enabled, acquire_cnt, wq_lock, wq_wait, ev_result, ev_started,
                 stop_timer, thread, ctx, cstate, callerVars, wop, wctx, wst, timerVars>>

\* An operation the worker just called.  An operation that stands for any
\* context method ("ok" returns a value of its caller, "raise" raises) is over
\* at once; the context methods of the tray are followed statement by
\* statement.
Begun(op) ==
  IF op.kind = "ok" THEN [NoRun EXCEPT !.ph = "done", !.res = Val(op.owner)]
  ELSE IF op.kind = "raise" THEN [NoRun EXCEPT !.ph = "done", !.res = Raised]
  ELSE [NoRun EXCEPT !.ph = "open"]

\* _worker 83-86: a call is pending: self._call_method(self.ctx, *args)
\* starts, the lock held
WorkerTake(w) ==
  /\ WorkerMayLock(w)
  /\ enabled
  /\ call_method # NoCall
  /\ wq_lock' = w
  /\ wop' = [wop EXCEPT ![w] = call_method]
  /\ wctx' = [wctx EXCEPT ![w] = ctx]
  /\ wst' = [wst EXCEPT ![w] = Begun(call_method)]
  /\ execCnt' = [execCnt EXCEPT ![call_method.owner] = @ + 1]
  /\ wpc' = [wpc EXCEPT ![w] = "w_exec"]
  /\ UNCHANGED <<budget, fires, probe, uiVars, unitVars, vbVars,
                 enabled, acquire_cnt, wq_wait, ev_result, ev_started,
                 stop_timer, thread, call_method, call_result, ctx, cstate,
                 pc, opn, cur, held, ret, timerVars>>

\* _worker 83-84, 92: no call pending: self._wq.wait() gives the lock back
WorkerIdle(w) ==
  /\ WorkerMayLock(w)
  /\ enabled
  /\ call_method = NoCall
  /\ wq_wait' = Append(wq_wait, w)
  /\ wpc' = [wpc EXCEPT ![w] = "w_wait"]
  /\ UNCHANGED <<budget, fires, probe, uiVars, unitVars, vbVars,
                 enabled, acquire_cnt, wq_lock, ev_result, ev_started, stop_timer,
                 thread, call_method, call_result, ctx, cstate,
                 callerVars, wop, wctx, wst, timerVars>>

\* _worker 86-88: the operation returns (its value is stored) or raises (the
\* fault is logged, self._call_result is left as it was).
ResultAfter(res, old) == IF res = Raised THEN old ELSE res

\* _worker 86-92: the operation ends; clear the call, set the result event,
\* self._wq.wait()
WorkerFinish(w) ==
  /\ wpc[w] = "w_exec"
  /\ wst[w].ph = "done"
  /\ call_result' = ResultAfter(wst[w].res, call_result)
  /\ call_method' = NoCall
  /\ ev_result' = TRUE
  /\ wq_lock' = 0
  /\ wq_wait' = Append(wq_wait, w)
  /\ wpc' = [wpc EXCEPT ![w] = "w_wait"]
  /\ wop' = [wop EXCEPT ![w] = NoCall]
  /\ wctx' = [wctx EXCEPT ![w] = 0]
  /\ wst' = [wst EXCEPT ![w] = NoRun]
  /\ lastop' = [kind |-> wop[w].kind, arg |-> wop[w].arg,
                raised |-> wst[w].res = Raised \/ wst[w].flt, res |-> wst[w].res]
  /\ UNCHANGED <<budget, fires, probe, uiVars, gactive, gtry, vbVars,
                 enabled, acquire_cnt, ev_started, stop_timer, thread,
                 ctx, cstate, callerVars, timerVars>>

\* _worker 99: self.ctx.deinit(); an AttributeError (self.ctx deleted, or the
\* context already released, VBContext.deinit 192) ends the thread.
WorkerDeinit(w) ==
  /\ wpc[w] = "w_deinit"
  /\ IF ctx \in Workers /\ cstate[ctx] = "live"
     THEN /\ cstate' = [cstate EXCEPT ![ctx] = "deinit"]
          /\ wpc' = [wpc EXCEPT ![w] = "w_del"]
     ELSE /\ cstate' = cstate
          /\ wpc' = [wpc EXCEPT ![w] = "dead"]
  /\ UNCHANGED <<budget, fires, probe, uiVars, unitVars, vbVars,
                 enabled, acquire_cnt, wq_lock, wq_wait, ev_result, ev_started,
                 stop_timer, thread, call_method, call_result, ctx,
                 callerVars, wop, wctx, wst, timerVars>>

\* _worker 100-101: del self.ctx
WorkerDel(w) ==
  /\ wpc[w] = "w_del"
  /\ ctx' = CtxDeleted
  /\ wpc' = [wpc EXCEPT ![w] = "dead"]
  /\ UNCHANGED <<budget, fires, probe, uiVars, unitVars, vbVars,
                 enabled, acquire_cnt, wq_lock, wq_wait, ev_result, ev_started,
                 stop_timer, thread, call_method, call_result, cstate,
                 callerVars, wop, wctx, wst, timerVars>>

\* ------------------------------------------------------------- VBContext
\* The operations of the tray run on the worker, the lock of _wq held.
\* A management-API call may fault while the fault budget lasts.
MayFault == IF faults > 0 THEN BOOLEAN ELSE {FALSE}
FaultsAfter(fault) == IF fault THEN faults - 1 ELSE faults

\* The context the operation was handed is a VBContext whose COM objects
\* (VBM, VB) are there: deinit (191-197) deletes them.
CtxUsable(w) == wctx[w] \in Workers /\ cstate[wctx[w]] = "live"

Ended(w, r) == [wst EXCEPT ![w].ph = "done", ![w].res = r]
Closing(w, r) == [wst EXCEPT ![w].ph = "close", ![w].res = r]

\* _worker 86: self.ctx was deleted (100): evaluating it raises
OpNoContext(w) ==
  /\ wpc[w] = "w_exec"
  /\ wst[w].ph = "open"
  /\ wop[w].kind \in {"machines_running", "shutdown_machine", "save_machine"}
  /\ wctx[w] \notin Workers
  /\ wst' = Ended(w, Raised)
  /\ UNCHANGED <<budget, fires, probe, uiVars, unitVars, vbVars, ctlVars, callerVars,
                 wpc, wop, wctx, timerVars>>

\* machines_running 215-216 over machines 202-213: the enumeration (_machines,
\* 199-200) may raise; a machine whose name or state cannot be read is left
\* out (206-212); the machines not in an off-state are returned
MachinesRunning(w) ==
  /\ wpc[w] = "w_exec"
  /\ wst[w].ph = "open"
  /\ wop[w].kind = "machines_running"
  /\ wctx[w] \in Workers
  /\ \E fault \in MayFault, skip \in SUBSET Machines :
       /\ Cardinality(skip) <= (IF fault THEN 0 ELSE faults)
       /\ faults' = FaultsAfter(fault) - Cardinality(skip)
       /\ wst' = Ended(w, IF fault \/ ~CtxUsable(w)
                          THEN Raised
                          ELSE List({m \in Machines \ skip :
                                       mstate[m] \notin OffMachineStates}))
  /\ UNCHANGED <<budget, fires, probe, uiVars, unitVars, mstate, guard, ctlVars, callerVars,
                 wpc, wop, wctx, timerVars>>

\* RecursionGuard.__enter__ 296-299 raises when the guard is taken already
GuardTaken(n) == n + 1 > 1
\* RecursionGuard.__enter__ 297: self._value += 1
GuardEntered(n) == n + 1
\* RecursionGuard.__exit__ 301-302: self._value -= 1
GuardLeft(n) == n - 1

\* Where the first statements of a guarded method may fault: the lookup of the
\* machine (221 / 244), getSessionObject (272), lockMachine (279), and for
\* save_machine the saveState command (250).
OpenFaults == IF faults > 0 THEN {"none", "lookup", "session", "lock"} ELSE {"none"}
SaveFaults == IF faults > 0 THEN OpenFaults \cup {"command"} ELSE {"none"}
FaultsLeft(f) == IF f = "none" THEN faults ELSE faults - 1

\* 221-223 / 244-248: the machine is looked up and `with VBSession(...)` is
\* entered, the machine in state st.  A failed lookup (238 / 261) ends the
\* method; without a session object (273-274) VBSession.__enter__ raises
\* AttributeError inside its try and returns None, as it does when lockMachine
\* raises (281-282); unpacking None raises TypeError inside the with
\* statement, so VBSession.__exit__ runs and the method ends at 238 / 261.
Opened(r, f, usable, st) ==
  LET e == [r EXCEPT !.entry = st]
  IN IF f = "lookup" \/ ~usable
     THEN [e EXCEPT !.ph = "close", !.flt = TRUE]
     ELSE IF f = "session"
     THEN [e EXCEPT !.ph = "close", !.flt = TRUE]
     ELSE IF f = "lock"
     THEN [e EXCEPT !.ph = "close", !.flt = TRUE, !.sess = "got"]
     ELSE [e EXCEPT !.ph = "loop", !.sess = "locked"]

\* shutdown_machine 219-223: take the recursion guard, look the machine up,
\* open a session on it
ShutdownOpen(w) ==
  /\ wpc[w] = "w_exec"
  /\ wst[w].ph = "open"
  /\ wop[w].kind = "shutdown_machine"
  /\ wctx[w] \in Workers
  /\ guard' = [guard EXCEPT ![wctx[w]] = GuardEntered(@)]
  /\ IF GuardTaken(guard[wctx[w]])
     THEN /\ wst' = [wst EXCEPT ![w].ph = "done", ![w].res = Raised,
                                ![w].entry = mstate[wop[w].arg]]
          /\ faults' = faults
     ELSE \E f \in OpenFaults :
            /\ faults' = FaultsLeft(f)
            /\ wst' = [wst EXCEPT ![w] = Opened(@, f, CtxUsable(w), mstate[wop[w].arg])]
  /\ UNCHANGED <<budget, fires, probe, uiVars, unitVars, mstate, ctlVars, callerVars,
                 wpc, wop, wctx, timerVars>>

\* shutdown_machine 227-234: what a round does with a machine in state st
RoundDoes_PowerFirst(st) ==
  IF st \in OffMachineStates THEN "return" ELSE "power"
RoundDoes(st) ==
  IF st = "Paused" THEN "resume"
  ELSE IF st \in OffMachineStates THEN "return"
  ELSE "power"

\* shutdown_machine 225: for i in range(20)
MoreRounds_OneMore(i) == i <= Iterations
MoreRounds(i) == i < Iterations

\* save_machine 252: for i in range(20)
MorePolls_OneMore(i) == i <= Iterations
MorePolls(i) == i < Iterations

\* shutdown_machine 225-237: one round of the loop: resume a paused machine,
\* return True for a machine in an off-state, else press the power button;
\* a fault ends the loop (236-237).  The round reads machine.state at 227
\* and again at 229; a machine that is not paused at 227 is not paused at
\* 229 either (MachineStops only takes it to an off-state), so the round does
\* what the state read at 229 asks for.
ShutdownIter(w) ==
  /\ wpc[w] = "w_exec"
  /\ wst[w].ph = "loop"
  /\ wop[w].kind = "shutdown_machine"
  /\ MoreRounds(wst[w].i)
  /\ LET m == wop[w].arg
         did == RoundDoes(mstate[m])
     IN \E fault \in MayFault :
          /\ faults' = FaultsAfter(fault)
          /\ IF fault
             THEN /\ wst' = [wst EXCEPT ![w].ph = "close", ![w].flt = TRUE,
                                        ![w].did = "fault"]
                  /\ mstate' = mstate
             ELSE IF did = "return"
             THEN /\ wst' = [wst EXCEPT ![w].ph = "close", ![w].res = True,
                                        ![w].saw = mstate[m], ![w].did = did]
                  /\ mstate' = mstate
             ELSE /\ wst' = [wst EXCEPT ![w].i = @ + 1, ![w].cmds = @ + 1,
                                        ![w].saw = mstate[m], ![w].did = did]
                  /\ mstate' = [mstate EXCEPT ![m] =
                                  IF did = "resume" THEN "Running"
                                  ELSE IF @ = "Running" THEN "Stopping" ELSE @]
  /\ UNCHANGED <<budget, fires, probe, uiVars, unitVars, guard, ctlVars, callerVars,
                 wpc, wop, wctx, timerVars>>

\* save_machine 242-250: take the recursion guard, look the machine up; a
\* machine in an off-state is left alone (246) and the method returns None;
\* else open a session and call saveState
SaveOpen(w) ==
  /\ wpc[w] = "w_exec"
  /\ wst[w].ph = "open"
  /\ wop[w].kind = "save_machine"
  /\ wctx[w] \in Workers
  /\ guard' = [guard EXCEPT ![wctx[w]] = GuardEntered(@)]
  /\ LET m == wop[w].arg
     IN IF GuardTaken(guard[wctx[w]])
        THEN /\ wst' = [wst EXCEPT ![w].ph = "done", ![w].res = Raised,
                                   ![w].entry = mstate[m]]
             /\ UNCHANGED <<faults, mstate>>
        ELSE \E f \in SaveFaults :
               /\ mstate[m] \in OffMachineStates => f \in {"none", "lookup"}
               /\ faults' = FaultsLeft(f)
               /\ IF f = "lookup" \/ ~CtxUsable(w)
                  THEN /\ wst' = [wst EXCEPT ![w] = Opened(@, f, CtxUsable(w), mstate[m])]
                       /\ mstate' = mstate
                  ELSE IF mstate[m] \in OffMachineStates
                  THEN /\ wst' = [wst EXCEPT ![w].ph = "close", ![w].entry = mstate[m]]
                       /\ mstate' = mstate
                  ELSE IF f \in {"session", "lock"}
                  THEN /\ wst' = [wst EXCEPT ![w] = Opened(@, f, TRUE, mstate[m])]
                       /\ mstate' = mstate
                  ELSE IF f = "command"
                  THEN /\ wst' = [wst EXCEPT ![w] =
                                    [Opened(@, "none", TRUE, mstate[m])
                                       EXCEPT !.ph = "close", !.flt = TRUE, !.saves = 1]]
                       /\ mstate' = mstate
                  ELSE /\ wst' = [wst EXCEPT ![w] =
                                    [Opened(@, "none", TRUE, mstate[m]) EXCEPT !.saves = 1]]
                       /\ mstate' = [mstate EXCEPT ![m] = "Saving"]
  /\ UNCHANGED <<budget, fires, probe, uiVars, unitVars, ctlVars, callerVars,
                 wpc, wop, wctx, timerVars>>

\* save_machine 252-256, 259-260: one poll of the loop: return True once the
\* machine is in an off-state
SaveIter(w) ==
  /\ wpc[w] = "w_exec"
  /\ wst[w].ph = "loop"
  /\ wop[w].kind = "save_machine"
  /\ MorePolls(wst[w].i)
  /\ \E fault \in MayFault :
       /\ faults' = FaultsAfter(fault)
       /\ wst' = IF fault
                 THEN [wst EXCEPT ![w].ph = "close", ![w].flt = TRUE, ![w].did = "fault"]
                 ELSE IF mstate[wop[w].arg] \in OffMachineStates
                 THEN [wst EXCEPT ![w].ph = "close", ![w].res = True,
                                  ![w].polls = @ + 1, ![w].did = "return"]
                 ELSE [wst EXCEPT ![w].i = @ + 1, ![w].polls = @ + 1, ![w].did = "poll"]
  /\ UNCHANGED <<budget, fires, probe, uiVars, unitVars, mstate, guard, ctlVars, callerVars,
                 wpc, wop, wctx, timerVars>>

\* shutdown_machine 225 / save_machine 252, 257-258: the rounds are used up,
\* the method falls off its end and returns None
OpGiveUp(w) ==
  /\ wpc[w] = "w_exec"
  /\ wst[w].ph = "loop"
  /\ IF wop[w].kind = "shutdown_machine"
     THEN ~MoreRounds(wst[w].i)
     ELSE ~MorePolls(wst[w].i)
  /\ wst' = Closing(w, None)
  /\ UNCHANGED <<budget, fires, probe, uiVars, unitVars, vbVars, ctlVars, callerVars,
                 wpc, wop, wctx, timerVars>>

\* VBSession.__exit__ 286-287: unlockMachine is called when there is a
\* session object
Unlocks_IfLocked(sess) == IF sess = "locked" THEN 1 ELSE 0
Unlocks(sess) == IF sess # "none" THEN 1 ELSE 0

\* VBSession.__exit__ 284-289 (a fault of unlockMachine is logged) and
\* RecursionGuard.__exit__ 301-302 on the way out of the method
OpClose(w) ==
  /\ wpc[w] = "w_exec"
  /\ wst[w].ph = "close"
  /\ guard' = [guard EXCEPT ![wctx[w]] = GuardLeft(@)]
  /\ \E fault \in (IF Unlocks(wst[w].sess) > 0 THEN MayFault ELSE {FALSE}) :
       faults' = FaultsAfter(fault)
  /\ wst' = [wst EXCEPT ![w].ph = "done", ![w].unlocks = @ + Unlocks(wst[w].sess)]
  /\ UNCHANGED <<budget, fires, probe, uiVars, unitVars, mstate, ctlVars, callerVars,
                 wpc, wop, wctx, timerVars>>

\* The machine itself: a guest that got the power button powers off, a
\* machine whose state is being saved gets saved.
MachineStops(m) ==
  /\ mstate[m] \in {"Stopping", "Saving"}
  /\ mstate' = [mstate EXCEPT ![m] = IF @ = "Stopping" THEN "PoweredOff" ELSE "Saved"]
  /\ UNCHANGED <<budget, fires, probe, uiVars, unitVars, faults, guard, ctlVars, callerVars,
                 workerVars, timerVars>>

\* ------------------------------------------------------------- idle timer
\* threading.Timer: the interval elapsed, on_timer runs: self._timer_stop() (120)
OnTimer(t) ==
  /\ tpc[t] = "armed"
  /\ fires # 0
  /\ fires' = IF fires > 0 THEN fires - 1 ELSE fires
  /\ tpc' = [TimerStopped(tpc) EXCEPT ![t] = "t_stop"]
  /\ stop_timer' = TimerStopRef
  /\ UNCHANGED <<budget, probe, uiVars, vbVars, unitVars,
                 enabled, acquire_cnt, wq_lock, wq_wait, ev_result, ev_started,
                 thread, call_method, call_result, ctx, cstate,
                 callerVars, workerVars, tjoin>>

\* stop 111-114: with self._wq: self._enabled = False; notify(); then the
\* thread object join() is called on
StopDisable(t) ==
  /\ tpc[t] = "t_stop"
  /\ wq_lock = 0
  /\ enabled' = FALSE
  /\ wpc' = Notified(wpc)
  /\ wq_wait' = NotifiedQueue
  /\ tjoin' = [tjoin EXCEPT ![t] = thread]
  /\ tpc' = [tpc EXCEPT ![t] = "t_join"]
  /\ UNCHANGED <<budget, fires, probe, uiVars, unitVars, vbVars,
                 acquire_cnt, wq_lock, ev_result, ev_started, stop_timer, thread,
                 call_method, call_result, ctx, cstate,
                 callerVars, wop, wctx, wst>>

\* stop 114-116: self._thread.join() returns; self._ev_started.clear()
StopJoin(t) ==
  /\ tpc[t] = "t_join"
  /\ tjoin[t] # 0 => wpc[tjoin[t]] = "dead"
  /\ tjoin' = [tjoin EXCEPT ![t] = 0]
  /\ ev_started' = FALSE
  /\ tpc' = [tpc EXCEPT ![t] = "dead"]
  /\ UNCHANGED <<budget, fires, probe, uiVars, unitVars, vbVars,
                 enabled, acquire_cnt, wq_lock, wq_wait, ev_result, stop_timer,
                 thread, call_method, call_result, ctx, cstate,
                 callerVars, workerVars>>

\* ------------------------------------------------------------- Spec
CallerStep(c) ==
  \/ StartCheck(c) \/ StartThread(c) \/ StartWait(c)
  \/ CallAsyncNotRunning(c) \/ CallAsyncCheck(c) \/ CallSubmit(c)
  \/ CallWait(c)

WorkerStep(w) ==
  \/ WorkerStarted(w) \/ WorkerCtx(w) \/ WorkerLoopExit(w) \/ WorkerTake(w)
  \/ WorkerIdle(w) \/ WorkerFinish(w) \/ WorkerDeinit(w) \/ WorkerDel(w)

TimerStep(t) == OnTimer(t) \/ StopDisable(t) \/ StopJoin(t)

\* Any number of caller threads use the controller concurrently.
Next ==
  \/ \E c \in Callers, k \in OpKinds : CallBegin(c, k) /\ UNCHANGED <<probe, uiVars>>
  \/ \E c \in Callers : EnterBegin(c) /\ UNCHANGED <<probe, uiVars>>
  \/ \E c \in Callers : ExitBegin(c) /\ UNCHANGED <<probe, uiVars>>
  \/ \E c \in Callers : TimerStartArm(c) /\ UNCHANGED <<probe, uiVars>>
  \/ \E c \in Callers : CallerStep(c)
  \/ \E w \in Workers : WorkerStep(w)
  \/ \E t \in Timers : TimerStep(t)

Spec == Init /\ [][Next]_vars

\* ------------------------------------------------------------- SpecSeq
\* One caller thread (the message loop of the tray) uses the controller, one
\* method after the other; the worker and the timer threads run beside it.
\* The observer follows a run of acquires followed by as many releases.
Main == 1

InitSeq ==
  /\ InitCtl
  /\ NoTray
  /\ budget = MaxSeqOps
  /\ probe = ProbeOff

ProbeDone(p) ==
  [p EXCEPT !.phase = "done", !.depth = 0,
            !.cnt1 = acquire_cnt', !.armed1 = TimerArmed']

SeqCall(k) == CallBegin(Main, k) /\ probe' = ProbeOff /\ UNCHANGED uiVars

SeqEnter(first) ==
  /\ EnterBegin(Main)
  /\ UNCHANGED uiVars
  /\ probe' = IF first
              THEN [ProbeOff EXCEPT !.phase = "acq", !.k = 1, !.depth = 1,
                                    !.cnt0 = acquire_cnt, !.armed0 = TimerArmed]
              ELSE IF probe.phase = "acq"
                   THEN [probe EXCEPT !.k = @ + 1, !.depth = @ + 1]
                   ELSE ProbeOff

SeqExit ==
  /\ ExitBegin(Main)
  /\ UNCHANGED uiVars
  /\ probe' = IF probe.phase \in {"acq", "rel"}
              THEN IF probe.depth = 1 /\ pc'[Main] = "idle"
                   THEN ProbeDone(probe)
                   ELSE [probe EXCEPT !.phase = "rel", !.depth = @ - 1]
              ELSE ProbeOff

SeqArm ==
  /\ TimerStartArm(Main)
  /\ UNCHANGED uiVars
  /\ probe' = IF probe.phase = "rel" /\ probe.depth = 0 /\ opn[Main] = "release"
              THEN ProbeDone(probe)
              ELSE probe

NextSeq ==
  \/ \E k \in OpKinds : SeqCall(k)
  \/ \E first \in BOOLEAN : SeqEnter(first)
  \/ SeqExit
  \/ SeqArm
  \/ CallerStep(Main)
  \/ \E w \in Workers : WorkerStep(w)
  \/ \E t \in Timers : TimerStep(t)

SpecSeq == InitSeq /\ [][NextSeq]_vars

\* ------------------------------------------------------------- SpecTray
\* The tray: its message loop (the thread Main) dispatches WM_QUERYENDSESSION
\* and the posted WM_USER+30 to the handlers, which use the controller; the
\* worker and the timer threads and the machines run beside it.
exVars == <<ctlVars, callerVars, workerVars, timerVars, budget, fires, probe,
           vbVars, unitVars>>

\* len(x) and `for m in x` raise TypeError unless x is a list
IsList(r) == r.tag = "list"
\* `not x` of stop_machine 438
Truthy(r) == r.tag \in {"True", "val"} \/ (r.tag = "list" /\ r.ms # {})

RECURSIVE InOrder(_)
\* The machines of a list, in the order of their index
InOrder(S) == IF S = {} THEN <<>> ELSE <<Least(S)>> \o InOrder(S \ {Least(S)})

\* ShutdownBlocker.enable 311-314 / disable 316-320, on a counter at n
CreatedBy(n) == IF n = 0 THEN 1 ELSE 0
DestroyedBy(n) == IF n = 1 THEN 1 ELSE 0
Disabled_Unguarded(n) == n - 1
Disabled(n) == IF n > 0 THEN n - 1 ELSE n

\* What is the case when on_async_stop (394) takes the counter from n to 0
ReleasedAt(n, en, hd) ==
  IF n = 1
  THEN [valid |-> TRUE, enum |-> en, handled |-> hd,
        on |-> {m \in Machines : mstate[m] \notin OffMachineStates}]
  ELSE released

\* The operations a handler may need before it returns
OrchOps == MaxQueries * (3 + 4 * NumMachines)

\* on_queryendsession 398: self.vbcc.call(VBContext.machines_running)
UiQuery ==
  /\ upc = "loop"
  /\ queries > 0
  /\ CallBeginOp(Main, "machines_running", 0)
  /\ queries' = queries - 1
  /\ upc' = "query_ret"
  /\ UNCHANGED <<probe, posted, counter, created, destroyed, mlist, curm,
                 enum, handled, released>>

\* on_queryendsession 398-402: len(...) > 0: enable the blocker and post
\* WM_USER+30; a result that is no list raises TypeError out of the handler
UiQueryRet ==
  /\ upc = "query_ret"
  /\ pc[Main] = "idle"
  /\ IF IsList(ret[Main]) /\ ret[Main].ms # {}
     THEN /\ counter' = counter + 1
          /\ created' = created + CreatedBy(counter)
          /\ posted' = posted + 1
     ELSE UNCHANGED <<counter, created, posted>>
  /\ upc' = "loop"
  /\ UNCHANGED <<exVars, queries, destroyed, mlist, curm, enum, handled, released>>

\* on_async_stop 393 -> stop_machines 444: call(VBContext.machines_running)
UiAsyncStop ==
  /\ upc = "loop"
  /\ posted > 0
  /\ CallBeginOp(Main, "machines_running", 0)
  /\ posted' = posted - 1
  /\ enum' = {}
  /\ handled' = {}
  /\ upc' = "stop_ret1"
  /\ UNCHANGED <<probe, queries, counter, created, destroyed, mlist, curm, released>>

\* stop_machines 444: the list is empty: on_async_stop 394 disables the
\* blocker; the result is no list: TypeError ends on_async_stop before 394
UiStopNothing ==
  /\ upc = "stop_ret1"
  /\ pc[Main] = "idle"
  /\ ~(IsList(ret[Main]) /\ ret[Main].ms # {})
  /\ IF IsList(ret[Main])
     THEN /\ counter' = Disabled(counter)
          /\ destroyed' = destroyed + DestroyedBy(counter)
          /\ released' = ReleasedAt(counter, enum, handled)
     ELSE UNCHANGED <<counter, destroyed, released>>
  /\ upc' = "loop"
  /\ UNCHANGED <<exVars, posted, queries, created, mlist, curm, enum, handled>>

\* stop_machines 444-446: the list is not empty: with self.shutdown_blocker:
\* call(VBContext.machines_running) once more
UiStopSome ==
  /\ upc = "stop_ret1"
  /\ pc[Main] = "idle"
  /\ IsList(ret[Main]) /\ ret[Main].ms # {}
  /\ CallBeginOp(Main, "machines_running", 0)
  /\ counter' = counter + 1
  /\ created' = created + CreatedBy(counter)
  /\ upc' = "stop_ret2"
  /\ UNCHANGED <<probe, posted, queries, destroyed, mlist, curm, enum, handled, released>>

\* stop_machines 446: the for loop starts on the list; a result that is no
\* list raises TypeError: ShutdownBlocker.__exit__ (325-326) runs, and the
\* error ends on_async_stop before 394
UiStopList ==
  /\ upc = "stop_ret2"
  /\ pc[Main] = "idle"
  /\ IF IsList(ret[Main])
     THEN /\ mlist' = InOrder(ret[Main].ms)
          /\ enum' = ret[Main].ms
          /\ upc' = "stop_next"
          /\ UNCHANGED <<counter, destroyed>>
     ELSE /\ counter' = Disabled(counter)
          /\ destroyed' = destroyed + DestroyedBy(counter)
          /\ upc' = "loop"
          /\ UNCHANGED <<mlist, enum>>
  /\ UNCHANGED <<exVars, posted, queries, created, curm, handled, released>>

\* stop_machines 446: the for loop has no machine left
LoopDone_SkipLast(l) == Len(l) <= 1
LoopDone(l) == l = <<>>

\* stop_machines 446-447 -> stop_machine 436: the next machine: with self.vbcc:
UiStopMachine ==
  /\ upc = "stop_next"
  /\ ~LoopDone(mlist)
  /\ EnterBegin(Main)
  /\ curm' = Head(mlist)
  /\ mlist' = Tail(mlist)
  /\ upc' = "sm_enter"
  /\ UNCHANGED <<probe, posted, queries, counter, created, destroyed,
                 enum, handled, released>>

\* stop_machine 437, 436: read self.vbcc.ctx.MachineState (AttributeError
\* when self.ctx is None or deleted), then leave `with self.vbcc:`
UiLogState ==
  /\ upc = "sm_enter"
  /\ pc[Main] = "idle"
  /\ ExitBegin(Main)
  /\ upc' = IF ctx \in Workers THEN "sm_ok" ELSE "sm_fail"
  /\ UNCHANGED <<probe, posted, queries, counter, created, destroyed, mlist, curm,
                 enum, handled, released>>

\* stop_machine 438: self.vbcc.call(VBContext.shutdown_machine, machine)
UiShutdown ==
  /\ upc = "sm_ok"
  /\ pc[Main] = "idle"
  /\ CallBeginOp(Main, "shutdown_machine", curm)
  /\ upc' = "sm_sd"
  /\ UNCHANGED <<probe, posted, queries, counter, created, destroyed, mlist, curm,
                 enum, handled, released>>

\* stop_machine 438-439: `if not` the result: call(VBContext.save_machine, machine)
UiSave ==
  /\ upc = "sm_sd"
  /\ pc[Main] = "idle"
  /\ ~Truthy(ret[Main])
  /\ CallBeginOp(Main, "save_machine", curm)
  /\ upc' = "sm_sv"
  /\ UNCHANGED <<probe, posted, queries, counter, created, destroyed, mlist, curm,
                 enum, handled, released>>

\* stop_machine 438-441 returns: the shutdown succeeded, the save was called,
\* or the exception of 437 was swallowed
UiMachineDone ==
  /\ pc[Main] = "idle"
  /\ \/ upc = "sm_fail"
     \/ upc = "sm_sd" /\ Truthy(ret[Main])
     \/ upc = "sm_sv"
  /\ handled' = handled \cup {curm}
  /\ upc' = "stop_next"
  /\ UNCHANGED <<exVars, posted, queries, counter, created, destroyed, mlist, curm,
                 enum, released>>

\* stop_machines 445-447 is through: ShutdownBlocker.__exit__ (325-326), then
\* on_async_stop 394: self.shutdown_blocker.disable()
UiStopDone ==
  /\ upc = "stop_next"
  /\ LoopDone(mlist)
  /\ counter' = Disabled(Disabled(counter))
  /\ destroyed' = destroyed + DestroyedBy(counter) + DestroyedBy(Disabled(counter))
  /\ released' = ReleasedAt(Disabled(counter), enum, handled)
  /\ mlist' = <<>>
  /\ upc' = "loop"
  /\ UNCHANGED <<exVars, posted, queries, created, curm, enum, handled>>

UiStep ==
  \/ UiQuery \/ UiQueryRet \/ UiAsyncStop \/ UiStopNothing \/ UiStopSome
  \/ UiStopList \/ UiStopMachine \/ UiLogState \/ UiShutdown \/ UiSave
  \/ UiMachineDone \/ UiStopDone

CtxStep(w) ==
  \/ OpNoContext(w) \/ MachinesRunning(w) \/ ShutdownOpen(w) \/ ShutdownIter(w)
  \/ SaveOpen(w) \/ SaveIter(w) \/ OpGiveUp(w) \/ OpClose(w)

\* The machines are running, paused or off when the tray starts.
InitTray ==
  /\ InitCtl
  /\ InitUi
  /\ queries = MaxQueries
  /\ faults = MaxFaults
  /\ fires = MaxFires
  /\ mstate \in [Machines -> {"Running", "Paused", "PoweredOff"}]
  /\ gactive = [c \in Workers |-> 0]
  /\ gtry = [c \in Workers |-> NoTry]
  /\ lastop = NoDone
  /\ budget = OrchOps
  /\ probe = ProbeOff

NextTray ==
  \/ UiStep
  \/ CallerStep(Main)
  \/ TimerStartArm(Main) /\ UNCHANGED <<probe, uiVars>>
  \/ \E w \in Workers : WorkerStep(w)
  \/ \E w \in Workers : CtxStep(w)
  \/ \E t \in Timers : TimerStep(t)
  \/ \E m \in Machines : MachineStops(m)

SpecTray == InitTray /\ [][NextTray]_vars

\* ------------------------------------------------------------- SpecGuard
\* RecursionGuard by itself: guarded operations (`with self._recursion_guard:`,
\* 219 and 242) are entered and left on the guards of the contexts in any
\* nesting.  The with statement runs __exit__ for an operation that got in,
\* and does not run it when __enter__ raised.
InitGuard ==
  /\ InitCtl
  /\ NoTray
  /\ budget = MaxGuardOps
  /\ probe = ProbeOff

\* with self._recursion_guard: RecursionGuard.__enter__ 296-299
GuardEnter(c) ==
  /\ budget > 0
  /\ budget' = budget - 1
  /\ guard' = [guard EXCEPT ![c] = GuardEntered(@)]
  /\ IF GuardTaken(guard[c])
     THEN /\ gtry' = [gtry EXCEPT ![c] = [was |-> gactive[c], out |-> "fault"]]
          /\ gactive' = gactive
     ELSE /\ gtry' = [gtry EXCEPT ![c] = [was |-> gactive[c], out |-> "admitted"]]
          /\ gactive' = [gactive EXCEPT ![c] = @ + 1]
  /\ UNCHANGED <<ctlVars, callerVars, workerVars, timerVars, fires, probe, uiVars,
                 mstate, faults, lastop>>

\* the end of the with block: RecursionGuard.__exit__ 301-302
GuardExit(c) ==
  /\ gactive[c] > 0
  /\ guard' = [guard EXCEPT ![c] = GuardLeft(@)]
  /\ gactive' = [gactive EXCEPT ![c] = @ - 1]
  /\ UNCHANGED <<ctlVars, callerVars, workerVars, timerVars, budget, fires, probe,
                 uiVars, mstate, faults, gtry, lastop>>

NextGuard ==
  \/ \E c \in Workers : GuardEnter(c)
  \/ \E c \in Workers : GuardExit(c)

SpecGuard == InitGuard /\ [][NextGuard]_vars

\* ------------------------------------------------------------- SpecBlocker
\* ShutdownBlocker by itself: enable() and disable() are called in any order.
InitBlocker ==
  /\ InitCtl
  /\ NoTray
  /\ budget = MaxBlockerCalls
  /\ probe = ProbeOff

\* ShutdownBlocker.enable 311-314
BlockerEnable ==
  /\ budget > 0
  /\ budget' = budget - 1
  /\ created' = created + CreatedBy(counter)
  /\ counter' = counter + 1
  /\ UNCHANGED <<ctlVars, callerVars, workerVars, timerVars, fires, probe, vbVars,
                 unitVars, upc, posted, queries, destroyed, mlist, curm, enum,
                 handled, released>>

\* ShutdownBlocker.disable 316-320
BlockerDisable ==
  /\ budget > 0
  /\ budget' = budget - 1
  /\ destroyed' = destroyed + DestroyedBy(counter)
  /\ counter' = Disabled(counter)
  /\ UNCHANGED <<ctlVars, callerVars, workerVars, timerVars, fires, probe, vbVars,
                 unitVars, upc, posted, queries, created, mlist, curm, enum,
                 handled, released>>

NextBlocker == BlockerEnable \/ BlockerDisable

SpecBlocker == InitBlocker /\ [][NextBlocker]_vars

\* ------------------------------------------------------------- properties
\* A caller is inside call(), or has returned from one.
InCall(c) == opn[c] = "call"
Returned(c) == pc[c] = "idle" /\ cur[c] # NoCall
AliveWorkers == {w \in Workers : ThreadAlive(w)}
LiveContexts == {w \in Workers : cstate[w] = "live"}
Executing == {w \in Workers : wpc[w] = "w_exec"}

\* Every step of a thread that is inside a method (no new method is entered).
Progress ==
  \/ \E c \in Callers : CallerStep(c)
  \/ \E c \in Callers : TimerStartArm(c)
  \/ \E w \in Workers : WorkerStep(w)
  \/ \E t \in Timers : TimerStep(t)

\* The slot budget never blocks a thread: a method that was entered always
\* finds a free thread / timer slot.
SlotsSuffice ==
  \A c \in Callers : /\ pc[c] = "start_thread" => FreeWorkers # {}
                     /\ pc[c] = "tstart_arm" => FreeTimers # {}

\* C1: operations run against the context strictly one at a time: at most one
\* worker is inside an operation, and it is the holder of the lock of _wq, so
\* no operation begins before the one that started has finished.
C1_Serialized ==
  /\ Cardinality(Executing) <= 1
  /\ \A w \in Workers : wpc[w] = "w_exec" => wq_lock = w

\* C1 witness: two callers are inside call(), one operation is executing and
\* a second live worker is ready to take the lock.
C1_Witness ==
  /\ \A c \in Callers : InCall(c)
  /\ \E w, v \in Workers : w # v /\ wpc[w] = "w_exec" /\ wpc[v] = "w_lock"

\* C2: when call(op) has returned, the worker ran op exactly once and the
\* value returned is the result of the caller's own op.
C2_CallAtomic ==
  \A c \in Callers :
    Returned(c) => /\ execCnt[c] = 1
                   /\ cur[c].kind = "ok" => ret[c] = Val(c)

\* C3: every call returns: when no thread inside a method can take a step any
\* more, no caller is still inside call().
C3_CallReturns ==
  (~ENABLED Progress) => \A c \in Callers : ~InCall(c)

\* C4: a call whose operation raised returns None.
C4_RaiseReturnsNone ==
  \A c \in Callers :
    (Returned(c) /\ cur[c].kind = "raise" /\ execCnt[c] = 1) => ret[c] = None

\* C7: while the hold count is above 0 no idle timer is armed and none is
\* about to stop the worker.
C7_HoldSuspendsTimer ==
  acquire_cnt > 0 => \A t \in Timers : tpc[t] \notin {"armed", "t_stop"}

\* C8: once the hold count is 0, the callers are idle and the idle timer has
\* fired and run, every context that was created has been torn down and no
\* worker is left; and an operation always executes on a live context.
C8_IdleTeardown ==
  /\ ((~ENABLED Progress) /\ acquire_cnt = 0 /\ \A c \in Callers : pc[c] = "idle")
        => (LiveContexts = {} /\ AliveWorkers = {})
  /\ \A w \in Workers :
       wpc[w] = "w_exec" => (wctx[w] \in Workers /\ cstate[wctx[w]] = "live")

\* C10: at most one worker thread is alive and at most one context exists.
C10_OneWorker ==
  /\ Cardinality(AliveWorkers) <= 1
  /\ Cardinality(LiveContexts) <= 1

\* C9 as stated: after k acquires and k releases the hold count is what it
\* was and the idle timer is armed iff it was armed before the first acquire.
C9_TimerAsBefore ==
  probe.phase = "done" =>
    (probe.cnt1 = probe.cnt0 /\ (probe.armed1 <=> probe.armed0))

\* C9 amended: after k acquires and k releases the hold count is what it was,
\* and the idle timer is armed iff that hold count is 0.
C9_TimerArmedIffUnheld ==
  probe.phase = "done" =>
    (probe.cnt1 = probe.cnt0 /\ (probe.armed1 <=> probe.cnt0 = 0))

\* C9 witness: two acquires and two releases were made from a state whose
\* timer was armed.
C9_Witness == probe.phase = "done" /\ probe.k = 2 /\ probe.armed0

\* C9, the nested case: an acquire and a release made inside a hold.
C9_WitnessNested == probe.phase = "done" /\ probe.cnt0 > 0

\* C5 as stated: when on_async_stop releases the veto (the counter is back at
\* 0), no machine is running or paused any more.
C5_ReleasedOnlyWhenOff == released.valid => released.on = {}

\* C5 amended: when on_async_stop releases the veto, stop_machine has returned
\* for every machine of the list stop_machines went over.
C5_ReleasedAfterAllHandled == released.valid => released.enum \subseteq released.handled

\* C5 witness: the veto was released after both machines were gone over, and
\* both are off.
C5_Witness == released.valid /\ released.enum = Machines /\ released.on = {}

\* C5, the case the amendment is about: released with a machine still on.
C5_WitnessStillOn == released.valid /\ released.enum # {} /\ released.on # {}

\* C6: once the veto was engaged and the message loop has dispatched every
\* posted stop request, the counter is back at 0 and the OS veto was destroyed
\* as often as it was created.
C6_VetoReleased ==
  (upc = "loop" /\ posted = 0 /\ created > 0) => (counter = 0 /\ destroyed = created)

\* The message loop thread has just read self.vbcc.ctx itself (stop_machine
\* 437), finding a context there ("sm_ok") or None / no attribute ("sm_fail").
UiReadCtx == upc \in {"sm_ok", "sm_fail"}

\* C11: the context is read and written by the worker thread only: the message
\* loop thread never reads self.vbcc.ctx itself, least of all before the
\* context is created or after it is torn down.
C11_Confined == ~UiReadCtx

\* C12: an attempt to enter a guard that an operation is inside of raises, and
\* an attempt made while no operation is inside is admitted, whatever happened
\* before.
C12_GuardContract ==
  \A c \in Workers :
    /\ gtry[c].was >= 1 => gtry[c].out = "fault"
    /\ (gtry[c].was = 0 /\ gtry[c].out # "none") => gtry[c].out = "admitted"

\* C17: the counter is never negative, the OS veto is registered (created and
\* not yet destroyed) iff the counter is above 0, and it is created only on
\* the step from 0 to 1 and destroyed only on the step from 1 to 0.
C17_Refcount ==
  /\ [](/\ counter >= 0
        /\ created - destroyed = (IF counter > 0 THEN 1 ELSE 0))
  /\ [][/\ created' # created => (counter = 0 /\ counter' = 1 /\ created' = created + 1)
        /\ destroyed' # destroyed =>
             (counter = 1 /\ counter' = 0 /\ destroyed' = destroyed + 1)]_vars

\* C17 witness: five calls, at least three of them disable(), among them an
\* enable that registered the veto: the veto is inactive, destroyed once.
C17_Witness ==
  /\ budget = MaxBlockerCalls - 5
  /\ counter = 0 /\ created = 1 /\ destroyed = 1

\* C18: once every guarded operation that was inside a guard has left it, the
\* depth counter is back at 0.
C18_SelfHeals == \A c \in Workers : gactive[c] = 0 => guard[c] = 0

\* ---------------------------------------------------------------------
\* shutdown_machine, save_machine and VBSession, as run by the tray
\* ---------------------------------------------------------------------

\* The worker w is in (or has just left) a call of the method named kind:
\* the call was made (the worker found a context to make it on, 86).
Runs(w, kind) == wpc[w] = "w_exec" /\ wop[w].kind = kind /\ wst[w].entry # ""
\* The call has left its loop and its session.
Left(w) == wst[w].ph \in {"close", "done"}

\* C13: every round of shutdown_machine acts on the state it reads: resume
\* for Paused, return True with no command for an off-state, the power
\* button otherwise; a machine in an off-state at entry gets True and no
\* command at all.
C13_LiveState ==
  \A w \in Workers : Runs(w, "shutdown_machine") =>
    /\ wst[w].did \in {"resume", "return", "power"} =>
         wst[w].did = (IF wst[w].saw = "Paused" THEN "resume"
                       ELSE IF wst[w].saw \in OffMachineStates THEN "return"
                       ELSE "power")
    /\ wst[w].did = "return" =>
         /\ Left(w) /\ wst[w].res = True
         /\ wst[w].cmds = wst[w].i
    /\ (wst[w].entry \in OffMachineStates /\ Left(w) /\ ~wst[w].flt) =>
         /\ wst[w].res = True
         /\ wst[w].cmds = 0
C13_Witness ==
  \E w \in Workers :
    /\ Runs(w, "shutdown_machine") /\ wst[w].ph = "done"
    /\ wst[w].entry = "Paused" /\ wst[w].did = "return" /\ wst[w].cmds = 2
C13_WitnessOff ==
  \E w \in Workers :
    /\ Runs(w, "shutdown_machine") /\ wst[w].ph = "done" /\ ~wst[w].flt
    /\ wst[w].entry \in OffMachineStates /\ wst[w].res = True /\ wst[w].cmds = 0

\* C14: shutdown_machine makes at most 20 rounds and issues at most 20
\* commands; a call that entered its loop, met no fault and did not return
\* True has made exactly 20 rounds and returns None, raising nothing.
C14_Bounded ==
  \A w \in Workers : Runs(w, "shutdown_machine") =>
    /\ wst[w].i <= 20 /\ wst[w].cmds <= 20
    /\ (Left(w) /\ wst[w].sess = "locked" /\ ~wst[w].flt /\ wst[w].res # True) =>
         /\ wst[w].i = 20
         /\ wst[w].res = None
C14_Witness ==
  \E w \in Workers :
    /\ Runs(w, "shutdown_machine") /\ wst[w].ph = "done" /\ ~wst[w].flt
    /\ wst[w].sess = "locked" /\ wst[w].i = 20 /\ wst[w].res = None

\* C15: save_machine on a machine in an off-state returns a truthy result,
\* having issued no saveState and taken no session.
C15_OffIsSuccess ==
  \A w \in Workers :
    (Runs(w, "save_machine") /\ Left(w) /\ ~wst[w].flt
       /\ wst[w].entry \in OffMachineStates) =>
      /\ Truthy(wst[w].res)
      /\ wst[w].saves = 0
      /\ wst[w].sess = "none"

\* C16: save_machine on a machine not in an off-state issues saveState once
\* and polls at most 20 times: it returns True on the first poll that reads
\* an off-state, and None after 20 polls that read none; nothing is raised.
C16_SaveOncePoll ==
  \A w \in Workers : Runs(w, "save_machine") =>
    /\ wst[w].saves <= 1 /\ wst[w].polls <= 20
    /\ (Left(w) /\ ~wst[w].flt /\ wst[w].entry \notin OffMachineStates) =>
         /\ wst[w].saves = 1
         /\ IF wst[w].did = "return"
            THEN wst[w].res = True /\ wst[w].polls = wst[w].i + 1
            ELSE wst[w].res = None /\ wst[w].polls = 20 /\ wst[w].i = 20
C16_Witness ==
  \E w \in Workers :
    /\ Runs(w, "save_machine") /\ wst[w].ph = "done" /\ ~wst[w].flt
    /\ wst[w].saves = 1 /\ wst[w].res = True /\ wst[w].polls = 3
C16_WitnessExhausted ==
  \E w \in Workers :
    /\ Runs(w, "save_machine") /\ wst[w].ph = "done" /\ ~wst[w].flt
    /\ wst[w].saves = 1 /\ wst[w].res = None /\ wst[w].polls = 20

\* C20: a call of shutdown_machine or save_machine that obtained a session
\* object has attempted unlockMachine exactly once when it returns, however
\* it left (and never before it left); a fault of lockMachine or
\* unlockMachine is not raised to the caller.
C20_UnlockOnce ==
  \A w \in Workers :
    (Runs(w, "shutdown_machine") \/ Runs(w, "save_machine")) =>
      /\ wst[w].ph # "done" => wst[w].unlocks = 0
      /\ (wst[w].ph = "done" /\ wst[w].sess # "none") =>
           /\ wst[w].unlocks = 1
           /\ wst[w].res # Raised
      /\ (wst[w].ph = "done" /\ wst[w].sess = "none") => wst[w].unlocks = 0
C20_Witness ==
  \E w \in Workers :
    /\ Runs(w, "shutdown_machine") /\ wst[w].ph = "done"
    /\ wst[w].sess = "got" /\ wst[w].flt /\ wst[w].unlocks = 1
C20_WitnessFaultInBody ==
  \E w \in Workers :
    /\ Runs(w, "save_machine") /\ wst[w].ph = "done"
    /\ wst[w].sess = "locked" /\ wst[w].did = "fault" /\ wst[w].unlocks = 1

\* ---------------------------------------------------------------------
\* stop_machine: shutdown first, save as the fallback
\* ---------------------------------------------------------------------

\* The shutdown attempt stop_machine made for its machine ran and returned
\* True.
ShutdownSucceeded ==
  /\ execCnt[Main] = 1
  /\ lastop.kind = "shutdown_machine" /\ lastop.arg = curm
  /\ lastop.res = True

\* C19: stop_machine submits save_machine for its machine exactly when the
\* shutdown attempt it made for that machine did not succeed, and not while
\* that attempt is still running; it goes on to the next machine without a
\* save exactly when the attempt succeeded.
C19_SaveIffShutdownFailed ==
  [][upc = "sm_sd" =>
       /\ upc' = "sm_sv" =>
            /\ ~ShutdownSucceeded
            /\ \A w \in Workers :
                 ~(wpc[w] = "w_exec" /\ wop[w].kind = "shutdown_machine")
       /\ upc' = "stop_next" => ShutdownSucceeded]_vars

====
